---- MODULE Spec2Model ----
(***************************************************************************)
(* A model of gtfparse/read_gtf.py: parse_gtf, parse_gtf_and_expand_       *)
(* attributes and read_gtf, with the three converters parse_gtf hands to   *)
(* the delimited-text reader (intern_str, intern_frame,                    *)
(* fix_attribute_quotes).                                                  *)
(*                                                                         *)
(* Strings are sequences of symbols.  A symbol is one punctuation          *)
(* character (";", "\"", "-", " ", "."), one digit, or a word that stands  *)
(* for a non-empty run of other characters.  The empty string is <<>>.     *)
(***************************************************************************)
EXTENDS Integers, Sequences, FiniteSets, TLC

VARIABLES
    filepath_or_buffer,      \* [kind, rows]: the source and the lines it holds
    expand_attribute_column, \* read_gtf argument
    infer_biotype_column,    \* read_gtf argument
    column_converters,       \* read_gtf argument: sequence of <<column, converter>>
    usecols,                 \* read_gtf argument: <<>> is None, <<cols>> a list
    chunksize,               \* read_gtf argument
    pc,                      \* position of the call
    pos,                     \* rows the chunk iterator has consumed
    dataframes,              \* parse_gtf: chunks read so far
    result_df,               \* read_gtf: <<>> while unassigned, <<table>> after
    assembled,               \* the table as it stood before the converter loop
    todo,                    \* the converter items the loop has not run yet
    returned,                \* <<>>, or <<table>> once read_gtf has returned
    errors,                  \* the exceptions that reached read_gtf's caller
    started,                 \* the parsing steps that have begun
    attr,                    \* an attribute string given to fix_attribute_quotes
    fixed                    \* the results of applying it once, twice, ...

vars == <<filepath_or_buffer, expand_attribute_column, infer_biotype_column,
          column_converters, usecols, chunksize, pc, pos, dataframes,
          result_df, assembled, todo, returned, errors, started, attr, fixed>>

callVars == <<filepath_or_buffer, expand_attribute_column, infer_biotype_column,
              column_converters, usecols, chunksize, pc, pos, dataframes,
              result_df, assembled, todo, returned, errors, started>>

\* ------------------------------------------------------------------ bounds

MaxAttrLen == 4

MaxRows == 2

MaxChunk == 2

\* ----------------------------------------------------------------- strings

Last(s) == s[Len(s)]

IsPrefixAt(s, pat, i) ==
    /\ i + Len(pat) - 1 <= Len(s)
    /\ \A k \in 1..Len(pat) : s[i + k - 1] = pat[k]

\* str.replace(old, new): every non-overlapping occurrence, left to right.
RECURSIVE ReplaceFrom(_, _, _, _)
ReplaceFrom(s, old, new, i) ==
    IF i > Len(s) THEN <<>>
    ELSE IF IsPrefixAt(s, old, i)
         THEN new \o ReplaceFrom(s, old, new, i + Len(old))
         ELSE <<s[i]>> \o ReplaceFrom(s, old, new, i + 1)

Replace(s, old, new) == ReplaceFrom(s, old, new, 1)

\* str.replace(old, new, 1): the first occurrence only.
RECURSIVE ReplaceFirstFrom(_, _, _, _)
ReplaceFirstFrom(s, old, new, i) ==
    IF i > Len(s) THEN <<>>
    ELSE IF IsPrefixAt(s, old, i)
         THEN new \o SubSeq(s, i + Len(old), Len(s))
         ELSE <<s[i]>> \o ReplaceFirstFrom(s, old, new, i + 1)

Contains(s, pat) == \E i \in 1..Len(s) : IsPrefixAt(s, pat, i)

SemiQuote == <<";", "\"">>

SemiDash == <<";", "-">>

fix_attribute_quotes_first_only(a) ==
    ReplaceFirstFrom(ReplaceFirstFrom(a, SemiQuote, <<"\"">>, 1), SemiDash, <<"-">>, 1)

fix_attribute_quotes(a) ==
    Replace(Replace(a, SemiQuote, <<"\"">>), SemiDash, <<"-">>)

\* ------------------------------------------- the normalizer on its own

AttrAlphabet == {";", "\"", "-", "w"}

RECURSIVE StringsUpTo(_)
StringsUpTo(n) ==
    IF n = 0 THEN {<<>>}
    ELSE LET shorter == StringsUpTo(n - 1)
         IN  shorter \cup {Append(s, c) : s \in shorter, c \in AttrAlphabet}

Idle ==
    /\ filepath_or_buffer = [kind |-> "buffer", rows |-> <<>>]
    /\ expand_attribute_column = TRUE
    /\ infer_biotype_column = FALSE
    /\ column_converters = <<>>
    /\ usecols = <<>>
    /\ chunksize = 1
    /\ pc = "idle"
    /\ pos = 0
    /\ dataframes = <<>>
    /\ result_df = <<>>
    /\ assembled = <<>>
    /\ todo = <<>>
    /\ returned = <<>>
    /\ errors = <<>>
    /\ started = {}

InitNorm ==
    /\ Idle
    /\ attr \in StringsUpTo(MaxAttrLen)
    /\ fixed = <<>>

FixOnce ==
    /\ fixed = <<>>
    /\ fixed' = <<fix_attribute_quotes(attr)>>
    /\ UNCHANGED <<attr, callVars>>

FixAgain ==
    /\ Len(fixed) = 1
    /\ fixed' = Append(fixed, fix_attribute_quotes(Last(fixed)))
    /\ UNCHANGED <<attr, callVars>>

NextNorm == FixOnce \/ FixAgain

SpecNorm == InitNorm /\ [][NextNorm]_vars

\* C2 as stated: applying fix_attribute_quotes a second time changes nothing,
\* for every attribute string.
C2_Idempotent ==
    Len(fixed) = 2 => fixed[2] = fixed[1]

\* C2 amended: applying fix_attribute_quotes a second time changes nothing for
\* every attribute string that holds neither ;;" nor ;;- .
C2_IdempotentSingleSemicolon ==
    (/\ Len(fixed) = 2
     /\ ~Contains(attr, <<";", ";", "\"">>)
     /\ ~Contains(attr, <<";", ";", "-">>))
        => fixed[2] = fixed[1]

\* Both fixups acted on a string the amended claim covers.
C2_Witness ==
    /\ Len(fixed) = 2
    /\ Contains(attr, SemiQuote)
    /\ Contains(attr, SemiDash)
    /\ ~Contains(attr, <<";", ";", "\"">>)
    /\ ~Contains(attr, <<";", ";", "-">>)
    /\ fixed[1] # attr
    /\ fixed[2] = fixed[1]

\* -------------------------------------------------------------- cell values

StrCell(s) == [t |-> "str", v |-> s]

IntCell(n) == [t |-> "int", v |-> n]

Float32Cell(n) == [t |-> "float32", v |-> n]

BoolCell(b) == [t |-> "bool", v |-> b]

\* numpy's float NaN, what the reader stores for a field listed in na_values.
NaN == [t |-> "NaN"]

None == [t |-> "None"]

Ok(c) == [ok |-> TRUE, cell |-> c]

Raise(type, msg) == [ok |-> FALSE, exc |-> [type |-> type, msg |-> msg]]

\* ------------------------------------------------------------------ numbers

DigitSyms == <<"0", "1", "2", "3", "4", "5", "6", "7", "8", "9">>

IsDigit(c) == \E d \in 1..10 : DigitSyms[d] = c

DigitVal(c) == (CHOOSE d \in 1..10 : DigitSyms[d] = c) - 1

AllDigits(s) == Len(s) > 0 /\ \A i \in 1..Len(s) : IsDigit(s[i])

RECURSIVE DecimalValue(_)
DecimalValue(s) ==
    IF s = <<>> THEN 0
    ELSE 10 * DecimalValue(SubSeq(s, 1, Len(s) - 1)) + DigitVal(Last(s))

RECURSIVE Numeral(_)
Numeral(n) ==
    IF n < 10 THEN <<DigitSyms[n + 1]>>
    ELSE Append(Numeral(n \div 10), DigitSyms[(n % 10) + 1])

RECURSIVE Strip(_)
Strip(s) ==
    IF s = <<>> THEN s
    ELSE IF s[1] = " " THEN Strip(Tail(s))
    ELSE IF Last(s) = " " THEN Strip(SubSeq(s, 1, Len(s) - 1))
    ELSE s

Quoted(s) == <<"'">> \o s \o <<"'">>

\* int(s): surrounding whitespace is dropped, one sign is allowed, the rest
\* must be decimal digits; anything else raises ValueError.
PyInt(s) ==
    LET body == Strip(s)
        neg == body # <<>> /\ body[1] = "-"
        digits == IF body # <<>> /\ body[1] \in {"-", "+"} THEN Tail(body) ELSE body
    IN  IF AllDigits(digits)
        THEN Ok(IntCell(IF neg THEN 0 - DecimalValue(digits) ELSE DecimalValue(digits)))
        ELSE Raise("ValueError",
                   <<"invalid literal for int() with base 10: ">> \o Quoted(s))

Float32Bits == 24

RECURSIVE Exponent(_, _)
Exponent(n, e) == IF n < 2 ^ (Float32Bits + e) THEN e ELSE Exponent(n, e + 1)

\* The float32 nearest to the non-negative integer n (ties to even).
RoundToFloat32(n) ==
    LET e == Exponent(n, 0)
        q == n \div (2 ^ e)
        r == n % (2 ^ e)
        up == e > 0 /\ (2 * r > 2 ^ e \/ (2 * r = 2 ^ e /\ q % 2 = 1))
    IN  (IF up THEN q + 1 ELSE q) * (2 ^ e)

\* ------------------------------------------------- parse_gtf's converters

intern_str(s) == Ok(StrCell(s))

intern_frame_missing(s) ==
    IF s = <<".">> THEN Ok(None) ELSE PyInt(s)

intern_frame(s) ==
    IF s = <<".">> THEN Ok(IntCell(0)) ELSE PyInt(s)

\* na_values=".": "." is added to the reader's default markers, of which the
\* empty field and NA are modelled.
NaValues == {<<".">>, <<>>, <<"NA">>}

\* dtype np.int64: a column of decimal integers, with no missing value.
ParseInt64(s) ==
    IF s \in NaValues
    THEN Raise("ValueError", <<"Integer column has NA values">>)
    ELSE IF AllDigits(s) THEN Ok(IntCell(DecimalValue(s)))
    ELSE Raise("ValueError", <<"invalid literal for int() with base 10: ">> \o Quoted(s))

\* dtype np.float32 with na_values.  The score literals modelled are the
\* non-negative decimal integers.
ParseScore(s) ==
    IF s \in NaValues THEN Ok(NaN)
    ELSE IF AllDigits(s) THEN Ok(Float32Cell(RoundToFloat32(DecimalValue(s))))
    ELSE Raise("ValueError", <<"could not convert string to float: ">> \o Quoted(s))

REQUIRED_COLUMNS ==
    <<"seqname", "source", "feature", "start", "end", "score", "strand",
      "frame", "attribute">>

NumColumns == Len(REQUIRED_COLUMNS)

ColumnIx(name) == CHOOSE i \in 1..NumColumns : REQUIRED_COLUMNS[i] = name

\* What pd.read_csv makes of one field of column `name`.
ConvertField(name, s) ==
    CASE name \in {"seqname", "source", "feature", "strand"} -> intern_str(s)
      [] name \in {"start", "end"} -> ParseInt64(s)
      [] name = "score" -> ParseScore(s)
      [] name = "frame" -> intern_frame(s)
      [] name = "attribute" -> Ok(StrCell(fix_attribute_quotes(s)))

\* ------------------------------------------------------------------ tables

Min(S) == CHOOSE x \in S : \A y \in S : x <= y

Range(s) == {s[i] : i \in 1..Len(s)}

\* A DataFrame: the column labels in order, each column's cells, and the row
\* labels.
Table(columns, data, index) == [columns |-> columns, data |-> data, index |-> index]

NumRows(tbl) == Len(tbl.index)

\* df[name] = values, values a list: an existing column is replaced in place,
\* a new one is appended.
SetColumn(tbl, name, values) ==
    Table(IF name \in Range(tbl.columns) THEN tbl.columns
          ELSE Append(tbl.columns, name),
          [c \in DOMAIN tbl.data \cup {name} |->
              IF c = name THEN values ELSE tbl.data[c]],
          tbl.index)

\* del df[name]
DelColumn(tbl, name) ==
    Table(SelectSeq(tbl.columns, LAMBDA c : c # name),
          [c \in DOMAIN tbl.data \ {name} |-> tbl.data[c]],
          tbl.index)

\* df[names], names a list of labels of df.
SelectColumns(tbl, names) ==
    Table(names, [c \in Range(names) |-> tbl.data[c]], tbl.index)

\* pd.concat(frames) of frames with the same columns: rows and row labels
\* follow one another.
RECURSIVE Concat(_)
Concat(frames) ==
    IF Len(frames) = 1 THEN frames[1]
    ELSE LET head == Concat(SubSeq(frames, 1, Len(frames) - 1))
             last == Last(frames)
         IN  Table(head.columns,
                   [c \in DOMAIN head.data |-> head.data[c] \o last.data[c]],
                   head.index \o last.index)

\* `key in series`: a Series tests membership among its row labels.
SeriesContains(tbl, name, key) == key \in Range(tbl.index)

\* ---------------------------------------------------- reading one chunk

\* One read of the chunk iterator over `rows`, the first of which is line
\* `first` + 1 of the input.  Lines are tokenized first (a line with more
\* than nine fields is an error), then converted column by column.
ReadChunk(rows, first) ==
    LET n == Len(rows)
        wide == {j \in 1..n : Len(rows[j]) # NumColumns}
        conv(ci, j) == ConvertField(REQUIRED_COLUMNS[ci], rows[j][ci])
        badcols == {ci \in 1..NumColumns : \E j \in 1..n : ~conv(ci, j).ok}
    IN  IF wide # {}
        THEN Raise("ParserError",
                   <<"Error tokenizing data. C error: Expected 9 fields in line ">>
                   \o Numeral(first + Min(wide)) \o <<", saw ">>
                   \o Numeral(Len(rows[Min(wide)])))
        ELSE IF badcols # {}
        THEN LET ci == Min(badcols)
             IN  conv(ci, Min({j \in 1..n : ~conv(ci, j).ok}))
        ELSE [ok |-> TRUE,
              df |-> Table(REQUIRED_COLUMNS,
                           [c \in Range(REQUIRED_COLUMNS) |->
                               [j \in 1..n |-> conv(ColumnIx(c), j).cell]],
                           [j \in 1..n |-> IntCell(first + j - 1)])]

\* ------------------------------------------------ attribute expansion

RECURSIVE Join(_)
Join(s) == IF s = <<>> THEN "" ELSE s[1] \o Join(Tail(s))

RECURSIVE SplitOn(_, _)
SplitOn(s, sep) ==
    IF sep \notin Range(s) THEN <<s>>
    ELSE LET i == Min({k \in 1..Len(s) : s[k] = sep})
         IN  <<SubSeq(s, 1, i - 1)>> \o SplitOn(SubSeq(s, i + 1, Len(s)), sep)

Unquote(v) ==
    IF Len(v) >= 2 /\ v[1] = "\"" /\ Last(v) = "\""
    THEN SubSeq(v, 2, Len(v) - 1) ELSE v

\* One `key value` entry: [ok, key, value].
ParseEntry(e) ==
    IF " " \notin Range(e) THEN [ok |-> FALSE, key |-> "", value |-> e]
    ELSE LET i == Min({k \in 1..Len(e) : e[k] = " "})
         IN  [ok |-> TRUE,
              key |-> Join(SubSeq(e, 1, i - 1)),
              value |-> Unquote(Strip(SubSeq(e, i + 1, Len(e))))]

\* The entries of one attribute string, blank ones skipped.
Entries(s) ==
    LET pieces == SplitOn(s, ";")
        stripped == [i \in 1..Len(pieces) |-> Strip(pieces[i])]
        kept == SelectSeq(stripped, LAMBDA e : e # <<>>)
    IN  [i \in 1..Len(kept) |-> ParseEntry(kept[i])]

RECURSIVE Dedupe(_)
Dedupe(s) ==
    IF s = <<>> THEN <<>>
    ELSE LET init == Dedupe(SubSeq(s, 1, Len(s) - 1))
         IN  IF Last(s) \in Range(init) THEN init ELSE Append(init, Last(s))

RECURSIVE Flatten(_)
Flatten(ss) == IF ss = <<>> THEN <<>> ELSE ss[1] \o Flatten(Tail(ss))

\* expand_attribute_strings(attribute_values, usecols): the columns in
\* first-seen key order, one cell per record, None where the key is absent,
\* the later value where a record repeats a key.
expand_attribute_strings(attribute_values, restrict) ==
    LET n == Len(attribute_values)
        entries == [i \in 1..n |-> Entries(attribute_values[i].v)]
        bad == {i \in 1..n : \E k \in 1..Len(entries[i]) : ~entries[i][k].ok}
        keysOf(i) == [k \in 1..Len(entries[i]) |-> entries[i][k].key]
        seen == Dedupe(Flatten([i \in 1..n |-> keysOf(i)]))
        keys == IF restrict = <<>> THEN seen
                ELSE SelectSeq(seen, LAMBDA k : k \in Range(restrict[1]))
        cell(key, i) ==
            LET at == {k \in 1..Len(entries[i]) : entries[i][k].key = key}
            IN  IF at = {} THEN None
                ELSE StrCell(entries[i][CHOOSE k \in at : \A m \in at : m <= k].value)
    IN  IF bad # {}
        THEN [ok |-> FALSE,
              exc |-> [type |-> "AttributeParseError",
                       msg |-> <<"Expected key and value in ">>
                               \o Quoted(attribute_values[Min(bad)].v)]]
        ELSE [ok |-> TRUE,
              keys |-> keys,
              values |-> [key \in Range(keys) |-> [i \in 1..n |-> cell(key, i)]]]

\* parse_gtf_and_expand_attributes, after parse_gtf gave `result`.
RECURSIVE SetColumns(_, _, _)
SetColumns(tbl, keys, values) ==
    IF keys = <<>> THEN tbl
    ELSE SetColumns(SetColumn(tbl, keys[1], values[keys[1]]), Tail(keys), values)

parse_gtf_and_expand_attributes(result, restrict) ==
    LET expansion == expand_attribute_strings(result.data["attribute"], restrict)
    IN  IF ~expansion.ok THEN [ok |-> FALSE, exc |-> expansion.exc]
        ELSE [ok |-> TRUE,
              df |-> SetColumns(DelColumn(result, "attribute"),
                                expansion.keys, expansion.values)]

\* ------------------------------------------------ column_converters

\* The conversion functions a caller passes: int and bool.
CallConverter(column_type, s) ==
    CASE column_type = "int" -> PyInt(s)
      [] column_type = "bool" -> Ok(BoolCell(Len(s) > 0))

TypeName(cell) ==
    CASE cell.t = "None" -> "NoneType"
      [] cell.t = "NaN" -> "float"
      [] cell.t = "float32" -> "float"
      [] OTHER -> cell.t

ConvertCell_keep_empty(column_type, cell) ==
    IF cell.t # "str"
    THEN Raise("TypeError",
               <<"object of type ", "'", TypeName(cell), "'", " has no len()">>)
    ELSE IF Len(cell.v) > 0 THEN CallConverter(column_type, cell.v)
    ELSE Ok(cell)

ConvertCell_always_call(column_type, cell) ==
    IF cell.t # "str"
    THEN Raise("TypeError",
               <<"object of type ", "'", TypeName(cell), "'", " has no len()">>)
    ELSE CallConverter(column_type, cell.v)

\* column_type(string_value) if len(string_value) > 0 else None
ConvertCell(column_type, cell) ==
    IF cell.t # "str"
    THEN Raise("TypeError",
               <<"object of type ", "'", TypeName(cell), "'", " has no len()">>)
    ELSE IF Len(cell.v) > 0 THEN CallConverter(column_type, cell.v)
    ELSE Ok(None)

ConvertColumn_swallow(tbl, column_name, column_type) ==
    IF column_name \notin Range(tbl.columns)
    THEN Raise("KeyError", <<column_name>>)
    ELSE LET old == tbl.data[column_name]
             new == [i \in 1..Len(old) |-> ConvertCell(column_type, old[i])]
         IN  [ok |-> TRUE,
              df |-> SetColumn(tbl, column_name,
                               [i \in 1..Len(old) |->
                                   IF new[i].ok THEN new[i].cell ELSE None])]

\* One pass of the converter loop: result_df[column_name] = [...].
ConvertColumn(tbl, column_name, column_type) ==
    IF column_name \notin Range(tbl.columns)
    THEN Raise("KeyError", <<column_name>>)
    ELSE LET old == tbl.data[column_name]
             new == [i \in 1..Len(old) |-> ConvertCell(column_type, old[i])]
             bad == {i \in 1..Len(old) : ~new[i].ok}
         IN  IF bad # {} THEN new[Min(bad)]
             ELSE [ok |-> TRUE,
                   df |-> SetColumn(tbl, column_name,
                                    [i \in 1..Len(old) |-> new[i].cell])]

\* ------------------------------------------------------ biotype inference

ProteinCoding == StrCell(<<"protein_coding">>)

\* The last block of read_gtf.
InferBiotypeColumns(tbl) ==
    IF "source" \notin Range(tbl.columns)
    THEN Raise("KeyError", <<"source">>)
    ELSE IF SeriesContains(tbl, "source", ProteinCoding)
    THEN LET column_names == Range(tbl.columns)
             withGene == IF "gene_biotype" \notin column_names
                         THEN SetColumn(tbl, "gene_biotype", tbl.data["source"])
                         ELSE tbl
             withBoth == IF "transcript_biotype" \notin column_names
                         THEN SetColumn(withGene, "transcript_biotype",
                                        withGene.data["source"])
                         ELSE withGene
         IN  [ok |-> TRUE, df |-> withBoth]
    ELSE [ok |-> TRUE, df |-> tbl]

\* ------------------------------------------------------------ the inputs

Field(w) == <<w>>

Attribute(key, value) == <<key, " ", "\"">> \o value \o <<"\"", ";">>

Line(seqname, source, feature, start, end, score, strand, frame, attribute) ==
    <<seqname, source, feature, start, end, score, strand, frame, attribute>>

GeneLine ==
    Line(Field("1"), Field("protein_coding"), Field("gene"), Field("1"), Field("9"),
         Field("."), Field("+"), Field("."), Attribute("gene_id", <<"G1">>))

ExonLine ==
    Line(<<>>, Field("havana"), Field("exon"), Field("2"), Field("5"),
         Field("7"), Field("-"), Field("1"),
         Attribute("gene_id", <<"7">>) \o <<" ">>
         \o Attribute("gene_biotype", <<"protein_coding">>))

CdsLine ==
    Line(Field("X"), Field("protein_coding"), Field("CDS"), Field("3"), Field("4"),
         <<"1", "6", "7", "7", "7", "2", "1", "7">>, Field("."), Field("2"),
         Attribute("gene_name", <<"P", ";">>) \o <<" ">> \o Attribute("tag", <<>>))

SourceKeyLine ==
    Line(Field("1"), Field("protein_coding"), Field("gene"), Field("1"), Field("9"),
         Field("."), Field("+"), Field("0"), Attribute("source", <<"x">>))

WideLine == Append(GeneLine, Field("extra"))

BadFrameLine ==
    Line(Field("1"), Field("havana"), Field("exon"), Field("2"), Field("5"),
         Field("."), Field("-"), Field("x"), Attribute("gene_id", <<"G1">>))

Lines == {GeneLine, ExonLine, CdsLine, SourceKeyLine, WideLine, BadFrameLine}

RECURSIVE Files(_)
Files(n) ==
    IF n = 1 THEN {<<l>> : l \in Lines}
    ELSE Files(n - 1) \cup {Append(f, l) : f \in Files(n - 1), l \in Lines}

Sources ==
    {[kind |-> "missing_path", rows |-> <<>>]}
    \cup {[kind |-> k, rows |-> f] : k \in {"path", "buffer"}, f \in Files(MaxRows)}

ConverterChoices ==
    { <<>>,
      << <<"seqname", "bool">> >>,
      << <<"gene_id", "int">> >>,
      << <<"tag", "int">>, <<"seqname", "bool">> >> }

UsecolsChoices ==
    { <<>>,
      << <<"seqname", "source", "gene_id">> >>,
      << <<"gene_id", "frame">> >> }

\* ------------------------------------------------------------- read_gtf

Init ==
    /\ filepath_or_buffer \in Sources
    /\ expand_attribute_column \in BOOLEAN
    /\ infer_biotype_column \in BOOLEAN
    /\ column_converters \in ConverterChoices
    /\ usecols \in UsecolsChoices
    /\ chunksize \in 1..MaxChunk
    /\ pc = "call"
    /\ pos = 0
    /\ dataframes = <<>>
    /\ result_df = <<>>
    /\ assembled = <<>>
    /\ todo = <<>>
    /\ returned = <<>>
    /\ errors = <<>>
    /\ started = {}
    /\ attr = <<>>
    /\ fixed = <<>>

inputVars == <<filepath_or_buffer, expand_attribute_column, infer_biotype_column,
               column_converters, usecols, chunksize, attr, fixed>>

\* An exception leaves read_gtf: nothing is returned.
Throw(exc) ==
    /\ pc' = "raised"
    /\ errors' = Append(errors, exc)
    /\ returned' = <<>>

CheckSource_unchecked ==
    /\ pc = "call"
    /\ pc' = "dispatch"
    /\ UNCHANGED <<errors, returned>>
    /\ UNCHANGED <<inputVars, pos, dataframes, result_df, assembled, todo, started>>

\* if isinstance(filepath_or_buffer, string_types) and not exists(...): raise
CheckSource ==
    /\ pc = "call"
    /\ IF filepath_or_buffer.kind = "missing_path"
       THEN Throw([type |-> "ValueError", msg |-> <<"GTF file does not exist: ">>])
       ELSE pc' = "dispatch" /\ UNCHANGED <<errors, returned>>
    /\ UNCHANGED <<inputVars, pos, dataframes, result_df, assembled, todo, started>>

\* if expand_attribute_column: ... else: result_df = parse_gtf(result_df).
\* In the else branch the argument is read before result_df was ever assigned.
Dispatch ==
    /\ pc = "dispatch"
    /\ IF expand_attribute_column
       THEN /\ pc' = "reading"
            /\ started' = started \cup {"parse_gtf"}
            /\ UNCHANGED <<errors, returned>>
       ELSE /\ Throw([type |-> "UnboundLocalError",
                      msg |-> <<"local variable 'result_df' referenced before assignment">>])
            /\ UNCHANGED started
    /\ UNCHANGED <<inputVars, pos, dataframes, result_df, assembled, todo>>

Rows == filepath_or_buffer.rows

ChunkEnd == IF pos + chunksize > Len(Rows) THEN Len(Rows) ELSE pos + chunksize

ReadNextChunk_keep_partial ==
    /\ pc = "reading"
    /\ pos < Len(Rows)
    /\ LET chunk == ReadChunk(SubSeq(Rows, pos + 1, ChunkEnd), pos)
       IN  IF chunk.ok
           THEN /\ dataframes' = Append(dataframes, chunk.df)
                /\ pos' = ChunkEnd
                /\ UNCHANGED <<pc, errors, returned>>
           ELSE /\ pos' = Len(Rows)
                /\ UNCHANGED <<pc, dataframes, errors, returned>>
    /\ UNCHANGED <<inputVars, result_df, assembled, todo, started>>

\* parse_gtf: for df in chunk_iterator: dataframes.append(df), and
\* except Exception as e: raise ParsingError(str(e)).
ReadNextChunk ==
    /\ pc = "reading"
    /\ pos < Len(Rows)
    /\ LET chunk == ReadChunk(SubSeq(Rows, pos + 1, ChunkEnd), pos)
       IN  IF chunk.ok
           THEN /\ dataframes' = Append(dataframes, chunk.df)
                /\ pos' = ChunkEnd
                /\ UNCHANGED <<pc, errors, returned>>
           ELSE /\ Throw([type |-> "ParsingError", msg |-> chunk.exc.msg])
                /\ dataframes' = <<>>
                /\ UNCHANGED pos
    /\ UNCHANGED <<inputVars, result_df, assembled, todo, started>>

\* parse_gtf: df = pd.concat(dataframes); return df.
ConcatChunks ==
    /\ pc = "reading"
    /\ pos = Len(Rows)
    /\ dataframes # <<>>
    /\ result_df' = <<Concat(dataframes)>>
    /\ pc' = IF expand_attribute_column THEN "expand" ELSE "restrict"
    /\ UNCHANGED <<inputVars, pos, dataframes, assembled, todo, returned, errors, started>>

\* read_gtf hands usecols on as restrict_attribute_columns.
ExpandAttributes ==
    /\ pc = "expand"
    /\ started' = started \cup {"expand_attribute_strings"}
    /\ LET expanded == parse_gtf_and_expand_attributes(result_df[1], usecols)
       IN  IF expanded.ok
           THEN /\ result_df' = <<expanded.df>>
                /\ pc' = "restrict"
                /\ UNCHANGED <<errors, returned>>
           ELSE /\ Throw(expanded.exc)
                /\ UNCHANGED result_df
    /\ UNCHANGED <<inputVars, pos, dataframes, assembled, todo>>

\* if usecols is not None: result_df = result_df[valid_columns]
RestrictColumns ==
    /\ pc = "restrict"
    /\ started' = started \cup {"usecols"}
    /\ LET tbl == result_df[1]
           restricted ==
               IF usecols = <<>> THEN tbl
               ELSE SelectColumns(tbl, SelectSeq(usecols[1],
                                      LAMBDA c : c \in Range(tbl.columns)))
       IN  /\ result_df' = <<restricted>>
           /\ assembled' = <<restricted>>
    /\ todo' = column_converters
    /\ pc' = IF column_converters = <<>> THEN "biotype" ELSE "convert"
    /\ UNCHANGED <<inputVars, pos, dataframes, returned, errors>>

\* for column_name, column_type in list(column_converters.items()): ...
ApplyConverter ==
    /\ pc = "convert"
    /\ todo # <<>>
    /\ started' = started \cup {"converters"}
    /\ LET converted == ConvertColumn(result_df[1], todo[1][1], todo[1][2])
       IN  IF converted.ok
           THEN /\ result_df' = <<converted.df>>
                /\ todo' = Tail(todo)
                /\ pc' = IF Tail(todo) = <<>> THEN "biotype" ELSE "convert"
                /\ UNCHANGED <<errors, returned>>
           ELSE /\ Throw(converted.exc)
                /\ UNCHANGED <<result_df, todo>>
    /\ UNCHANGED <<inputVars, pos, dataframes, assembled>>

\* if infer_biotype_column and "protein_coding" in result_df["source"]: ...
\* return result_df
InferBiotypeAndReturn ==
    /\ pc = "biotype"
    /\ LET inferred == IF infer_biotype_column THEN InferBiotypeColumns(result_df[1])
                       ELSE [ok |-> TRUE, df |-> result_df[1]]
       IN  IF inferred.ok
           THEN /\ result_df' = <<inferred.df>>
                /\ returned' = <<inferred.df>>
                /\ pc' = "returned"
                /\ UNCHANGED errors
           ELSE /\ Throw(inferred.exc)
                /\ UNCHANGED result_df
    /\ UNCHANGED <<inputVars, pos, dataframes, assembled, todo, started>>

Next ==
    \/ CheckSource
    \/ Dispatch
    \/ ReadNextChunk
    \/ ConcatChunks
    \/ ExpandAttributes
    \/ RestrictColumns
    \/ ApplyConverter
    \/ InferBiotypeAndReturn

Spec == Init /\ [][Next]_vars

\* ------------------------------------------------------------ properties

NumLines == Len(Rows)

ReadableLine(l) ==
    /\ Len(l) = NumColumns
    /\ \A ci \in 1..NumColumns : ConvertField(REQUIRED_COLUMNS[ci], l[ci]).ok

Finished == pc \in {"raised", "returned"}

\* C1: with expand_attribute_column=False, every readable input is returned
\* as the nine fixed columns, the attribute column holding each record's
\* quote-normalized attribute string.
C1_RawAttributeTable ==
    (/\ Finished
     /\ ~expand_attribute_column
     /\ filepath_or_buffer.kind # "missing_path"
     /\ \A i \in 1..NumLines : ReadableLine(Rows[i])
     /\ usecols = <<>>
     /\ column_converters = <<>>
     /\ ~infer_biotype_column)
        => /\ pc = "returned"
           /\ errors = <<>>
           /\ returned # <<>>
           /\ returned[1].columns = REQUIRED_COLUMNS
           /\ \A i \in 1..NumLines :
                  returned[1].data["attribute"][i]
                      = StrCell(fix_attribute_quotes(Rows[i][ColumnIx("attribute")]))

\* C3: a path that does not exist ends the call with the 'GTF file does not
\* exist' error before any parsing step starts, whatever the other
\* arguments, and nothing is returned.
C3_MissingSourceFailsFast ==
    (filepath_or_buffer.kind = "missing_path" /\ pc # "call")
        => /\ pc = "raised"
           /\ errors = <<[type |-> "ValueError", msg |-> <<"GTF file does not exist: ">>]>>
           /\ started = {}
           /\ pos = 0
           /\ dataframes = <<>>
           /\ result_df = <<>>
           /\ returned = <<>>

\* A missing path was refused although expansion was off, inference on and
\* converters and usecols given.
C3_Witness ==
    /\ filepath_or_buffer.kind = "missing_path"
    /\ pc = "raised"
    /\ ~expand_attribute_column
    /\ infer_biotype_column
    /\ column_converters # <<>>
    /\ usecols # <<>>

NumChunks == (NumLines + chunksize - 1) \div chunksize

ChunkRows(k) ==
    SubSeq(Rows, k * chunksize + 1,
           IF (k + 1) * chunksize > NumLines THEN NumLines ELSE (k + 1) * chunksize)

FailingChunks ==
    {k \in 0..(NumChunks - 1) : ~ReadChunk(ChunkRows(k), k * chunksize).ok}

FirstFailure == ReadChunk(ChunkRows(Min(FailingChunks)), Min(FailingChunks) * chunksize)

\* C4: when some chunk cannot be read, parse_gtf ends with exactly one
\* ParsingError carrying the message of the first failure, and no table
\* built from the chunks read before it reaches the caller.
C4_ChunkFailureAborts ==
    ("parse_gtf" \in started /\ FailingChunks # {})
        => \/ /\ pc = "reading"
              /\ pos <= Min(FailingChunks) * chunksize
              /\ errors = <<>>
              /\ returned = <<>>
           \/ /\ pc = "raised"
              /\ errors = <<[type |-> "ParsingError", msg |-> FirstFailure.exc.msg]>>
              /\ result_df = <<>>
              /\ returned = <<>>

\* A chunk after the first failed, once earlier chunks had been read.
C4_Witness ==
    /\ pc = "raised"
    /\ FailingChunks # {}
    /\ Min(FailingChunks) >= 1
    /\ Len(errors) = 1
    /\ errors[1].type = "ParsingError"

ConverterColumns == {column_converters[k][1] : k \in 1..Len(column_converters)}

ConverterOf(c) ==
    column_converters[CHOOSE k \in 1..Len(column_converters) :
                          column_converters[k][1] = c][2]

\* The columns the converter loop has already been through.
ConvertedColumns ==
    {column_converters[k][1] : k \in 1..(Len(column_converters) - Len(todo))}

CleanItem(k) ==
    LET c == column_converters[k][1]
    IN  /\ c \in Range(assembled[1].columns)
        /\ \A i \in 1..NumRows(assembled[1]) :
               LET cell == assembled[1].data[c][i]
               IN  /\ cell.t = "str"
                   /\ Len(cell.v) > 0 => CallConverter(column_converters[k][2], cell.v).ok

\* Item k is the first to fail, and fails because its converter raises on
\* the non-empty string in row i.
ConverterRaisesAt(k, i) ==
    LET c == column_converters[k][1]
    IN  /\ \A m \in 1..(k - 1) : CleanItem(m)
        /\ c \in Range(assembled[1].columns)
        /\ LET cells == assembled[1].data[c]
           IN  /\ cells[i].t = "str"
               /\ Len(cells[i].v) > 0
               /\ ~CallConverter(column_converters[k][2], cells[i].v).ok
               /\ \A j \in 1..(i - 1) :
                      /\ cells[j].t = "str"
                      /\ Len(cells[j].v) > 0
                             => CallConverter(column_converters[k][2], cells[j].v).ok

RaisedBy(k, i) ==
    CallConverter(column_converters[k][2],
                  assembled[1].data[column_converters[k][1]][i].v).exc

\* C6 as stated: when a converter raises on a non-empty cell the load ends
\* with an error naming the column and the row index, and returns nothing.
C6_ErrorNamesColumnAndRow ==
    (assembled # <<>> /\ pc # "convert")
        => \A k \in 1..Len(column_converters) : \A i \in 1..NumRows(assembled[1]) :
               ConverterRaisesAt(k, i)
                   => /\ pc = "raised"
                      /\ returned = <<>>
                      /\ Len(errors) = 1
                      /\ column_converters[k][1] \in Range(errors[1].msg)
                      /\ Contains(errors[1].msg, Numeral(assembled[1].index[i].v))

\* C6 amended: when a converter raises on a non-empty cell the load ends with
\* the converter's own exception, unchanged, and returns nothing.
C6_ConverterErrorPropagates ==
    assembled # <<>>
        => \A k \in 1..Len(column_converters) : \A i \in 1..NumRows(assembled[1]) :
               ConverterRaisesAt(k, i)
                   => \/ /\ pc = "convert"
                         /\ Len(todo) >= Len(column_converters) - k + 1
                         /\ errors = <<>>
                         /\ returned = <<>>
                      \/ /\ pc = "raised"
                         /\ errors = <<RaisedBy(k, i)>>
                         /\ returned = <<>>

\* int raised on a non-empty cell of the second record.
C6_Witness ==
    /\ pc = "raised"
    /\ assembled # <<>>
    /\ \E k \in 1..Len(column_converters) :
           /\ NumRows(assembled[1]) >= 2
           /\ ConverterRaisesAt(k, 2)
           /\ errors = <<RaisedBy(k, 2)>>

AttributeKeys(i) ==
    LET entries == Entries(fix_attribute_quotes(Rows[i][ColumnIx("attribute")]))
    IN  {entries[k].key : k \in 1..Len(entries)}

\* The cells of the returned table for a "." score.
ScoreMissing ==
    IF "score" \in Range(returned[1].columns)
    THEN {returned[1].data["score"][i] :
              i \in {j \in 1..NumLines : Rows[j][ColumnIx("score")] = <<".">>}}
    ELSE {}

\* The cells of the returned table for an attribute key a record lacks.
AttrMissing ==
    LET keys == UNION {AttributeKeys(i) : i \in 1..NumLines}
        at == {p \in (keys \cap Range(returned[1].columns)) \X (1..NumLines) :
                   p[1] \notin AttributeKeys(p[2])}
    IN  {returned[1].data[p[1]][p[2]] : p \in at}

\* The cells of the returned table where a converter met the empty string.
ConvMissing ==
    LET at == {p \in ConverterColumns \X (1..NumLines) :
                   assembled[1].data[p[1]][p[2]] = StrCell(<<>>)}
    IN  {returned[1].data[p[1]][p[2]] : p \in at}

C8_FrameScoreCoercion ==
    pc = "expand"
        => \A i \in 1..NumLines :
               LET frame == Rows[i][ColumnIx("frame")]
                   score == Rows[i][ColumnIx("score")]
                   tbl == result_df[1]
               IN  /\ frame = <<".">> => tbl.data["frame"][i] = IntCell(0)
                   /\ frame = <<"1">> => tbl.data["frame"][i] = IntCell(1)
                   /\ frame # <<".">>
                          => tbl.data["frame"][i] = IntCell(DecimalValue(frame))
                   /\ score = <<".">> => tbl.data["score"][i] = NaN
                   /\ score = <<"1", "6", "7", "7", "7", "2", "1", "7">>
                          => tbl.data["score"][i] = Float32Cell(16777216)
                   /\ score # <<".">>
                          => tbl.data["score"][i]
                                 = Float32Cell(RoundToFloat32(DecimalValue(score)))

\* parse_gtf returned a record with "." for frame and score and another
\* with numbers for both.
C8_Witness ==
    /\ pc = "expand"
    /\ \E i, j \in 1..NumLines :
           /\ Rows[i][ColumnIx("frame")] = <<".">>
           /\ Rows[i][ColumnIx("score")] = <<".">>
           /\ Rows[j][ColumnIx("frame")] = <<"1">>
           /\ AllDigits(Rows[j][ColumnIx("score")])
           /\ result_df[1].data["frame"][i] = IntCell(0)
           /\ result_df[1].data["score"][j].t = "float32"

FixedKept == SelectSeq(REQUIRED_COLUMNS, LAMBDA c : c # "attribute")

\* C9: the table parse_gtf_and_expand_attributes returns has no attribute
\* column, the other eight fixed columns with their parsed values, one
\* column per key of the expansion, and N cells in every column, in record
\* order.
C9_ExpandedTableAligned ==
    pc = "restrict"
        => LET tbl == result_df[1]
               parsed(c) == [i \in 1..NumLines |->
                                ConvertField(c, Rows[i][ColumnIx(c)]).cell]
               expansion == expand_attribute_strings(parsed("attribute"), usecols)
           IN  /\ "attribute" \notin Range(tbl.columns)
               /\ \A c \in Range(FixedKept) :
                      c \in Range(tbl.columns) /\ tbl.data[c] = parsed(c)
               /\ \A k \in Range(expansion.keys) :
                      k \in Range(tbl.columns) /\ tbl.data[k] = expansion.values[k]
               /\ Len(tbl.columns) = Len(FixedKept) + Len(expansion.keys)
               /\ \A c \in Range(tbl.columns) : Len(tbl.data[c]) = NumLines
               /\ tbl.index = [i \in 1..NumLines |-> IntCell(i - 1)]

\* C10: with infer_biotype_column and a source value of protein_coding, the
\* one missing biotype column is added as a copy of source (transcript_biotype
\* when gene_biotype is there already, gene_biotype otherwise) and no biotype
\* column is overwritten; otherwise no column is added.
C10_BiotypeInference ==
    (pc = "returned" /\ "source" \in Range(assembled[1].columns))
        => LET tbl == returned[1]
               before == Range(assembled[1].columns)
               after == Range(tbl.columns)
               coding == \E i \in 1..NumRows(tbl) : tbl.data["source"][i] = ProteinCoding
               kept(c) == c \in before => tbl.data[c] = assembled[1].data[c]
           IN  IF infer_biotype_column /\ coding
               THEN IF "gene_biotype" \in before
                    THEN /\ kept("gene_biotype")
                         /\ kept("transcript_biotype")
                         /\ "transcript_biotype" \in after
                         /\ "transcript_biotype" \notin before
                                => tbl.data["transcript_biotype"] = tbl.data["source"]
                         /\ after = before \cup {"transcript_biotype"}
                    ELSE /\ "gene_biotype" \in after
                         /\ tbl.data["gene_biotype"] = tbl.data["source"]
                         /\ after = before \cup {"gene_biotype"}
               ELSE tbl.columns = assembled[1].columns
====
